---- MODULE Spec2Model ----
(***************************************************************************)
(* Black-Scholes(-Merton) option legs (src/FX.py: Option, src/Equity.py:   *)
(* EquityOption), the Strategy aggregator with its RiskReversal, Straddle  *)
(* and Butterfly constructors, and VolatilityAnalyzer (z_score,            *)
(* break_even).                                                            *)
(*                                                                         *)
(* Numbers.  A real number x is the integer round(x * SCALE) (fixed point, *)
(* four decimals).  A Python value is a record                             *)
(*     [k, v, np, e]                                                       *)
(* k = "num"  a finite number v; np tells a numpy.float64 from a Python    *)
(*            int/float (the two divide by zero differently),              *)
(* k = "inf"  +inf (v = 1) or -inf (v = -1), k = "nan" a NaN,              *)
(* k = "none" Python's None (a method that falls off its end),             *)
(* k = "raise" an exception of class/message e raised to the caller.       *)
(* Signed zeros and the rounding of binary floating point are not          *)
(* modelled.                                                               *)
(***************************************************************************)
EXTENDS Integers, Sequences, FiniteSets, TLC

VARIABLES legs, strategy, surface, last

vars == <<legs, strategy, surface, last>>

SCALE == 10^4

-----------------------------------------------------------------------------
(* Fixed-point arithmetic on integers.                                     *)

Abs(x) == IF x < 0 THEN -x ELSE x

Sgn(x) == IF x < 0 THEN -1 ELSE IF x > 0 THEN 1 ELSE 0

MulPos(a, b) == (a \div SCALE) * b + ((a % SCALE) * b + SCALE \div 2) \div SCALE

MulS(a, b) == Sgn(a) * Sgn(b) * MulPos(Abs(a), Abs(b))

DivS(a, b) == Sgn(a) * Sgn(b) * ((Abs(a) * SCALE + Abs(b) \div 2) \div Abs(b))

RECURSIVE IsqrtIter(_, _)
IsqrtIter(n, x) ==
    LET y == (x + n \div x) \div 2
    IN  IF y >= x THEN x ELSE IsqrtIter(n, y)

Isqrt(n) == IF n = 0 THEN 0 ELSE IsqrtIter(n, n)

SqrtS(x) == Isqrt(x * SCALE)

\* ln x = 2 atanh((x-1)/(x+1)), after halving or doubling x into [0.75, 1.5].
RECURSIVE LnS(_)
LnS(x) ==
    IF x > 15000 THEN LnS((x + 1) \div 2) + 6931
    ELSE IF x < 7500 THEN LnS(2 * x) - 6931
    ELSE LET z  == DivS(x - SCALE, x + SCALE)
             z2 == MulS(z, z)
             z3 == MulS(z2, z)
             z5 == MulS(z3, z2)
             z7 == MulS(z5, z2)
         IN  2 * z + (2 * z3) \div 3 + (2 * z5) \div 5 + (2 * z7) \div 7

\* e^x: the Taylor polynomial on [-0.5, 0.5], squaring outside it.
RECURSIVE ExpS(_)
ExpS(x) ==
    IF x > 5000 \/ x < -5000
    THEN LET h == x \div 2
             e == ExpS(h)
         IN  IF x = 2 * h THEN MulS(e, e) ELSE MulS(MulS(e, e), ExpS(x - 2 * h))
    ELSE LET x2 == MulS(x, x)
             x3 == MulS(x2, x)
             x4 == MulS(x3, x)
             x5 == MulS(x4, x)
             x6 == MulS(x5, x)
         IN  SCALE + x + x2 \div 2 + x3 \div 6 + x4 \div 24 + x5 \div 120 + x6 \div 720

\* The standard normal density exp(-x^2/2) / sqrt(2 pi).
PdfS(x) == MulS(ExpS(-(MulS(x, x) \div 2)), 3989)

\* The standard normal distribution function (Abramowitz-Stegun 26.2.17 for
\* x >= 0, and cdf(x) = 1 - cdf(-x) for x < 0).
RECURSIVE CdfS(_)
CdfS(x) ==
    IF x < 0 THEN SCALE - CdfS(-x)
    ELSE LET t == DivS(SCALE, SCALE + MulS(2316, x))
             p == MulS(t, 3194 + MulS(t, -3566 + MulS(t, 17815
                       + MulS(t, -18213 + MulS(t, 13303)))))
             c == SCALE - MulS(PdfS(x), p)
         IN  IF c > SCALE THEN SCALE ELSE IF c < 0 THEN 0 ELSE c

-----------------------------------------------------------------------------
(* Python values.                                                          *)

Py(x) == [k |-> "num", v |-> x, np |-> FALSE, e |-> ""]

Np(x) == [k |-> "num", v |-> x, np |-> TRUE, e |-> ""]

Inf(s) == [k |-> "inf", v |-> s, np |-> TRUE, e |-> ""]

NaN == [k |-> "nan", v |-> 0, np |-> TRUE, e |-> ""]

None == [k |-> "none", v |-> 0, np |-> FALSE, e |-> ""]

Raise(err) == [k |-> "raise", v |-> 0, np |-> FALSE, e |-> err]

OptionTypeError == "ValueError: Option type must be 'call' or 'put'."

NoVolError == "ValueError: No implied volatility found for strike"

\* The sign of a number or an infinity.
SignOf(a) == Sgn(a.v)

\* What an operator does before it looks at numbers: an exception already
\* raised in an operand goes on, and None is no operand of arithmetic.
Operands(a, b, r) ==
    IF a.k = "raise" THEN a
    ELSE IF b.k = "raise" THEN b
    ELSE IF a.k = "none" \/ b.k = "none" THEN Raise("TypeError")
    ELSE r

FNeg(a) ==
    IF a.k = "num" THEN [a EXCEPT !.v = -a.v]
    ELSE IF a.k = "inf" THEN Inf(-a.v)
    ELSE IF a.k = "none" THEN Raise("TypeError")
    ELSE a

FAdd(a, b) ==
    Operands(a, b,
        IF a.k = "nan" \/ b.k = "nan" THEN NaN
        ELSE IF a.k = "inf" /\ b.k = "inf" THEN (IF a.v = b.v THEN a ELSE NaN)
        ELSE IF a.k = "inf" THEN a
        ELSE IF b.k = "inf" THEN b
        ELSE [k |-> "num", v |-> a.v + b.v, np |-> a.np \/ b.np, e |-> ""])

FSub(a, b) == FAdd(a, FNeg(b))

FMul(a, b) ==
    Operands(a, b,
        IF a.k = "nan" \/ b.k = "nan" THEN NaN
        ELSE IF a.k = "inf" \/ b.k = "inf"
             THEN (IF SignOf(a) * SignOf(b) = 0 THEN NaN ELSE Inf(SignOf(a) * SignOf(b)))
        ELSE [k |-> "num", v |-> MulS(a.v, b.v), np |-> a.np \/ b.np, e |-> ""])

\* Python's int/float division raises ZeroDivisionError; with a numpy.float64 on
\* either side numpy divides: x/0 is an infinity, 0/0 a NaN (and a warning).
FDiv(a, b) ==
    Operands(a, b,
        IF a.k = "nan" \/ b.k = "nan" THEN NaN
        ELSE IF b.k = "inf" THEN (IF a.k = "inf" THEN NaN ELSE Np(0))
        ELSE IF b.v = 0
             THEN (IF ~a.np /\ ~b.np THEN Raise("ZeroDivisionError")
                   ELSE IF SignOf(a) = 0 THEN NaN ELSE Inf(SignOf(a)))
        ELSE IF a.k = "inf" THEN Inf(SignOf(a) * SignOf(b))
        ELSE [k |-> "num", v |-> DivS(a.v, b.v), np |-> a.np \/ b.np, e |-> ""])

\* numpy.log
FLog(a) ==
    IF a.k \in {"raise", "nan"} THEN a
    ELSE IF a.k = "none" THEN Raise("TypeError")
    ELSE IF a.v < 0 THEN NaN
    ELSE IF a.k = "inf" THEN a
    ELSE IF a.v = 0 THEN Inf(-1)
    ELSE Np(LnS(a.v))

\* numpy.sqrt
FSqrt(a) ==
    IF a.k \in {"raise", "nan"} THEN a
    ELSE IF a.k = "none" THEN Raise("TypeError")
    ELSE IF a.v < 0 THEN NaN
    ELSE IF a.k = "inf" THEN a
    ELSE Np(SqrtS(a.v))

\* numpy.exp
FExp(a) ==
    IF a.k \in {"raise", "nan"} THEN a
    ELSE IF a.k = "none" THEN Raise("TypeError")
    ELSE IF a.k = "inf" THEN (IF a.v > 0 THEN a ELSE Np(0))
    ELSE Np(ExpS(a.v))

\* scipy.stats.norm.cdf
FCdf(a) ==
    IF a.k \in {"raise", "nan"} THEN a
    ELSE IF a.k = "none" THEN Raise("TypeError")
    ELSE IF a.k = "inf" THEN (IF a.v > 0 THEN Np(SCALE) ELSE Np(0))
    ELSE Np(CdfS(a.v))

\* scipy.stats.norm.pdf
FPdf(a) ==
    IF a.k \in {"raise", "nan"} THEN a
    ELSE IF a.k = "none" THEN Raise("TypeError")
    ELSE IF a.k = "inf" THEN Np(0)
    ELSE Np(PdfS(a.v))

-----------------------------------------------------------------------------
(* src/FX.py: class Option.  A leg is a record of the constructor's fields  *)
(* and cls, the class of the object.                                        *)

DaysPerYear == 365

PercentagePoint == 100

Option(strike, expiry, option_type, implied_vol, spot, interest_rate) ==
    [cls |-> "Option", strike |-> strike, expiry |-> expiry,
     option_type |-> option_type, implied_vol |-> implied_vol, spot |-> spot,
     interest_rate |-> interest_rate]

Option_d1_d2(self) ==
    LET d1 == FDiv(FAdd(FLog(FDiv(Py(self.spot), Py(self.strike))),
                        FMul(FAdd(Py(self.interest_rate),
                                  FMul(Py(SCALE \div 2),
                                       FMul(Py(self.implied_vol), Py(self.implied_vol)))),
                             Py(self.expiry))),
                   FMul(Py(self.implied_vol), FSqrt(Py(self.expiry))))
        d2 == FSub(d1, FMul(Py(self.implied_vol), FSqrt(Py(self.expiry))))
    IN  <<d1, d2>>

\* strike * exp(-interest_rate * expiry), as every method writes it
Option_discounted_strike(self) ==
    FMul(Py(self.strike), FExp(FMul(FNeg(Py(self.interest_rate)), Py(self.expiry))))

\* Mutant of Option_black_scholes: no else branch, so an unrecognized option
\* type reaches "return price" with price unassigned.
Option_black_scholes_no_else(self) ==
    LET d  == Option_d1_d2(self)
        d1 == d[1]
        d2 == d[2]
    IN  IF d1.k = "raise" THEN d1
        ELSE IF self.option_type = "call"
        THEN FSub(FMul(Py(self.spot), FCdf(d1)),
                  FMul(Option_discounted_strike(self), FCdf(d2)))
        ELSE IF self.option_type = "put"
        THEN FSub(FMul(Option_discounted_strike(self), FCdf(FNeg(d2))),
                  FMul(Py(self.spot), FCdf(FNeg(d1))))
        ELSE Raise("UnboundLocalError")

Option_black_scholes(self) ==
    LET d  == Option_d1_d2(self)
        d1 == d[1]
        d2 == d[2]
    IN  IF d1.k = "raise" THEN d1
        ELSE IF self.option_type = "call"
        THEN FSub(FMul(Py(self.spot), FCdf(d1)),
                  FMul(Option_discounted_strike(self), FCdf(d2)))
        ELSE IF self.option_type = "put"
        THEN FSub(FMul(Option_discounted_strike(self), FCdf(FNeg(d2))),
                  FMul(Py(self.spot), FCdf(FNeg(d1))))
        ELSE Raise(OptionTypeError)

Option_delta(self) ==
    LET d1 == Option_d1_d2(self)[1]
    IN  IF d1.k = "raise" THEN d1
        ELSE IF self.option_type = "call" THEN FCdf(d1)
        ELSE IF self.option_type = "put" THEN FSub(FCdf(d1), Py(SCALE))
        ELSE None

\* Mutant of Option_gamma: gamma computed under "if call ... elif put ...", as
\* delta is, so an unrecognized option type falls off the end.
Option_gamma_by_type(self) ==
    LET d1 == Option_d1_d2(self)[1]
    IN  IF d1.k = "raise" THEN d1
        ELSE IF self.option_type \in {"call", "put"}
        THEN FDiv(FPdf(d1),
                  FMul(FMul(Py(self.spot), Py(self.implied_vol)), FSqrt(Py(self.expiry))))
        ELSE None

Option_gamma(self) ==
    LET d1 == Option_d1_d2(self)[1]
    IN  IF d1.k = "raise" THEN d1
        ELSE FDiv(FPdf(d1),
                  FMul(FMul(Py(self.spot), Py(self.implied_vol)), FSqrt(Py(self.expiry))))

Option_vega(self) ==
    LET d1 == Option_d1_d2(self)[1]
    IN  IF d1.k = "raise" THEN d1
        ELSE FDiv(FMul(FMul(Py(self.spot), FPdf(d1)), FSqrt(Py(self.expiry))),
                  Py(PercentagePoint * SCALE))

\* -(spot * pdf(d1) * implied_vol) / (2 * sqrt(expiry)), the first term of theta
Option_theta_decay(self, d1) ==
    FDiv(FNeg(FMul(FMul(Py(self.spot), FPdf(d1)), Py(self.implied_vol))),
         FMul(Py(2 * SCALE), FSqrt(Py(self.expiry))))

Option_theta(self) ==
    LET d  == Option_d1_d2(self)
        d1 == d[1]
        d2 == d[2]
        carry == FMul(Py(self.interest_rate), Py(self.strike))
        disc  == FExp(FMul(FNeg(Py(self.interest_rate)), Py(self.expiry)))
    IN  IF d1.k = "raise" THEN d1
        ELSE IF self.option_type = "call"
        THEN FDiv(FSub(Option_theta_decay(self, d1),
                       FMul(FMul(carry, disc), FCdf(d2))),
                  Py(DaysPerYear * SCALE))
        ELSE IF self.option_type = "put"
        THEN FDiv(FAdd(Option_theta_decay(self, d1),
                       FMul(FMul(carry, disc), FCdf(FNeg(d2)))),
                  Py(DaysPerYear * SCALE))
        ELSE Raise("UnboundLocalError")

Option_rho(self) ==
    LET d  == Option_d1_d2(self)
        d2 == d[2]
        kt   == FMul(Py(self.strike), Py(self.expiry))
        disc == FExp(FMul(FNeg(Py(self.interest_rate)), Py(self.expiry)))
    IN  IF d[1].k = "raise" THEN d[1]
        ELSE IF self.option_type = "call"
        THEN FDiv(FMul(FMul(kt, disc), FCdf(d2)), Py(PercentagePoint * SCALE))
        ELSE IF self.option_type = "put"
        THEN FDiv(FMul(FMul(FNeg(kt), disc), FCdf(FNeg(d2))), Py(PercentagePoint * SCALE))
        ELSE Raise("UnboundLocalError")

-----------------------------------------------------------------------------
(* src/Equity.py: class EquityOption.                                       *)

EquityOption(strike, expiry, option_type, implied_vol, spot, interest_rate, dividend_yield) ==
    [cls |-> "EquityOption", strike |-> strike, expiry |-> expiry,
     option_type |-> option_type, implied_vol |-> implied_vol, spot |-> spot,
     interest_rate |-> interest_rate, dividend_yield |-> dividend_yield]

EquityOption_d1_d2(self) ==
    LET d1 == FDiv(FAdd(FLog(FDiv(Py(self.spot), Py(self.strike))),
                        FMul(FAdd(FSub(Py(self.interest_rate), Py(self.dividend_yield)),
                                  FMul(Py(SCALE \div 2),
                                       FMul(Py(self.implied_vol), Py(self.implied_vol)))),
                             Py(self.expiry))),
                   FMul(Py(self.implied_vol), FSqrt(Py(self.expiry))))
        d2 == FSub(d1, FMul(Py(self.implied_vol), FSqrt(Py(self.expiry))))
    IN  <<d1, d2>>

\* exp(-dividend_yield * expiry)
EquityOption_div_discount(self) ==
    FExp(FMul(FNeg(Py(self.dividend_yield)), Py(self.expiry)))

\* exp(-interest_rate * expiry)
EquityOption_rate_discount(self) ==
    FExp(FMul(FNeg(Py(self.interest_rate)), Py(self.expiry)))

\* Mutant of EquityOption_black_scholes_merton: the put's spot term written as
\* in the FX class, without exp(-dividend_yield * expiry).
EquityOption_black_scholes_merton_fx_put(self) ==
    LET d  == EquityOption_d1_d2(self)
        d1 == d[1]
        d2 == d[2]
        s  == FMul(Py(self.spot), EquityOption_div_discount(self))
        k  == FMul(Py(self.strike), EquityOption_rate_discount(self))
    IN  IF d1.k = "raise" THEN d1
        ELSE IF self.option_type = "call"
        THEN FSub(FMul(s, FCdf(d1)), FMul(k, FCdf(d2)))
        ELSE IF self.option_type = "put"
        THEN FSub(FMul(k, FCdf(FNeg(d2))), FMul(Py(self.spot), FCdf(FNeg(d1))))
        ELSE Raise(OptionTypeError)

EquityOption_black_scholes_merton(self) ==
    LET d  == EquityOption_d1_d2(self)
        d1 == d[1]
        d2 == d[2]
        s  == FMul(Py(self.spot), EquityOption_div_discount(self))
        k  == FMul(Py(self.strike), EquityOption_rate_discount(self))
    IN  IF d1.k = "raise" THEN d1
        ELSE IF self.option_type = "call"
        THEN FSub(FMul(s, FCdf(d1)), FMul(k, FCdf(d2)))
        ELSE IF self.option_type = "put"
        THEN FSub(FMul(k, FCdf(FNeg(d2))), FMul(s, FCdf(FNeg(d1))))
        ELSE Raise(OptionTypeError)

EquityOption_delta(self) ==
    LET d1 == EquityOption_d1_d2(self)[1]
    IN  IF d1.k = "raise" THEN d1
        ELSE IF self.option_type = "call"
        THEN FMul(EquityOption_div_discount(self), FCdf(d1))
        ELSE IF self.option_type = "put"
        THEN FMul(EquityOption_div_discount(self), FSub(FCdf(d1), Py(SCALE)))
        ELSE None

EquityOption_gamma(self) ==
    LET d1 == EquityOption_d1_d2(self)[1]
    IN  IF d1.k = "raise" THEN d1
        ELSE FDiv(FPdf(d1),
                  FMul(FMul(Py(self.spot), Py(self.implied_vol)), FSqrt(Py(self.expiry))))

EquityOption_vega(self) ==
    LET d1 == EquityOption_d1_d2(self)[1]
    IN  IF d1.k = "raise" THEN d1
        ELSE FDiv(FMul(FMul(FMul(Py(self.spot), EquityOption_div_discount(self)),
                            FPdf(d1)),
                       FSqrt(Py(self.expiry))),
                  Py(PercentagePoint * SCALE))

\* -(spot * pdf(d1) * implied_vol * exp(-q T)) / (2 * sqrt(expiry))
EquityOption_theta_decay(self, d1) ==
    FDiv(FNeg(FMul(FMul(FMul(Py(self.spot), FPdf(d1)), Py(self.implied_vol)),
                   EquityOption_div_discount(self))),
         FMul(Py(2 * SCALE), FSqrt(Py(self.expiry))))

EquityOption_theta(self) ==
    LET d  == EquityOption_d1_d2(self)
        d1 == d[1]
        d2 == d[2]
        rk == FMul(FMul(Py(self.interest_rate), Py(self.strike)),
                   EquityOption_rate_discount(self))
        qs == FMul(FMul(Py(self.dividend_yield), Py(self.spot)),
                   EquityOption_div_discount(self))
    IN  IF d1.k = "raise" THEN d1
        ELSE IF self.option_type = "call"
        THEN FDiv(FAdd(FSub(EquityOption_theta_decay(self, d1), FMul(rk, FCdf(d2))),
                       FMul(qs, FCdf(d1))),
                  Py(DaysPerYear * SCALE))
        ELSE IF self.option_type = "put"
        THEN FDiv(FSub(FAdd(EquityOption_theta_decay(self, d1), FMul(rk, FCdf(FNeg(d2)))),
                       FMul(qs, FCdf(FNeg(d1)))),
                  Py(DaysPerYear * SCALE))
        ELSE Raise("UnboundLocalError")

EquityOption_rho(self) ==
    LET d  == EquityOption_d1_d2(self)
        d2 == d[2]
        kt == FMul(Py(self.strike), Py(self.expiry))
    IN  IF d[1].k = "raise" THEN d[1]
        ELSE IF self.option_type = "call"
        THEN FDiv(FMul(FMul(kt, EquityOption_rate_discount(self)), FCdf(d2)),
                  Py(PercentagePoint * SCALE))
        ELSE IF self.option_type = "put"
        THEN FDiv(FMul(FMul(FNeg(kt), EquityOption_rate_discount(self)), FCdf(FNeg(d2))),
                  Py(PercentagePoint * SCALE))
        ELSE Raise("UnboundLocalError")

-----------------------------------------------------------------------------
(* The caller: the objects it has built and the query it made last.        *)
(*   legs      the Option / EquityOption objects, in the order built       *)
(*   strategy  the Strategy object under analysis (NoStrategy before one   *)
(*             is built); its options refer to legs by index               *)
(*   surface   the caller's dict of implied volatilities by strike         *)
(*   last      the last call: its name, its arguments and what it returned *)
(*             or raised                                                   *)

MaxLegs == 2

MaxOptions == 1

OptionTypes == {"call", "put", "digital"}

\* The field values a leg is built from: the constructors validate nothing, so
\* a zero strike, a zero or negative expiry and a zero volatility are among them.
Strikes == {0, 10000, 20000}

Spots == {10000, 20000}

Expiries == {-10000, 0, 10000, 20000}

Vols == {0, 2000, 5000}

Rates == {0, 500}

Yields == {0, 300}

AllOptions ==
    {Option(k, t, ty, vol, s, r) :
        k \in Strikes, t \in Expiries, ty \in OptionTypes, vol \in Vols,
        s \in Spots, r \in Rates}

AllEquityOptions ==
    {EquityOption(k, t, ty, vol, s, r, q) :
        k \in Strikes, t \in Expiries, ty \in OptionTypes, vol \in Vols,
        s \in Spots, r \in Rates, q \in Yields}

\* The legs a caller builds: the two FX legs of src/FX.py main() and the call of
\* src/Equity.py main() (prices in hundreds), and an FX leg whose option type is
\* neither 'call' nor 'put'.
SomeOptions ==
    {Option(14300, 5000, "put", 1500, 14500, 100),
     Option(14700, 5000, "call", 1000, 14500, 100),
     Option(14500, 5000, "digital", 1200, 14500, 100)}

SomeEquityOptions ==
    {EquityOption(10500, 10000, "call", 1600, 10000, 200, 300)}

\* implied_vols of src/FX.py main()
MainSurface == (140 :> 1500) @@ (145 :> 1200) @@ (150 :> 1000)

SurfaceStrikes == {140, 145, 150}

SurfaceVols == {1000, 1200, 1500}

AllSurfaces ==
    UNION {[keys -> SurfaceVols] : keys \in SUBSET SurfaceStrikes}

\* strikes asked of z_score: those of the surface and one that is on none
QueryStrikes == SurfaceStrikes \cup {155}

\* underlying_move of break_even
Moves == {0, 20000}

\* Each method's result for each leg, computed once per leg (the methods are
\* functions of the leg's fields alone).
KnownOptions == AllOptions \cup SomeOptions

KnownEquityOptions == AllEquityOptions \cup SomeEquityOptions

Option_black_scholes_of == [o \in KnownOptions |-> Option_black_scholes(o)]

Option_delta_of == [o \in KnownOptions |-> Option_delta(o)]

Option_gamma_of == [o \in KnownOptions |-> Option_gamma(o)]

Option_vega_of == [o \in KnownOptions |-> Option_vega(o)]

Option_theta_of == [o \in KnownOptions |-> Option_theta(o)]

Option_rho_of == [o \in KnownOptions |-> Option_rho(o)]

EquityOption_black_scholes_merton_of == [o \in KnownEquityOptions |-> EquityOption_black_scholes_merton(o)]

EquityOption_delta_of == [o \in KnownEquityOptions |-> EquityOption_delta(o)]

EquityOption_gamma_of == [o \in KnownEquityOptions |-> EquityOption_gamma(o)]

EquityOption_vega_of == [o \in KnownEquityOptions |-> EquityOption_vega(o)]

EquityOption_theta_of == [o \in KnownEquityOptions |-> EquityOption_theta(o)]

EquityOption_rho_of == [o \in KnownEquityOptions |-> EquityOption_rho(o)]

-----------------------------------------------------------------------------
(* src/FX.py: class Strategy and its subclasses.  self.options is the list  *)
(* of legs, each a reference (an index into legs, the caller's objects).    *)

Strategy(options) == [cls |-> "Strategy", options |-> options]

RiskReversal(put, call) == [cls |-> "RiskReversal", options |-> <<put, call>>]

Straddle(put, call) == [cls |-> "Straddle", options |-> <<put, call>>]

\* Mutant of Butterfly: the middle leg listed once.
Butterfly_single_middle(lower_strike, middle_strike, upper_strike) ==
    [cls |-> "Butterfly", options |-> <<lower_strike, middle_strike, upper_strike>>]

Butterfly(lower_strike, middle_strike, upper_strike) ==
    [cls |-> "Butterfly",
     options |-> <<lower_strike, middle_strike, middle_strike, upper_strike>>]

NoStrategy == [cls |-> "NoneType", options |-> <<>>]

\* option.black_scholes(): the attribute lookup fails on an object whose class
\* does not define the method (EquityOption defines black_scholes_merton).
Call_black_scholes(option) ==
    IF option.cls = "Option" THEN Option_black_scholes_of[option]
    ELSE Raise("AttributeError")

\* option.delta(): both classes define it.
Call_delta(option) ==
    IF option.cls = "Option" THEN Option_delta_of[option]
    ELSE EquityOption_delta_of[option]

\* Python's sum(generator): total = 0, then total = total + item for each item
\* in order; the first exception (of an item, or of the addition) ends it.
RECURSIVE PySum(_, _)
PySum(items, total) ==
    IF total.k = "raise" \/ items = <<>> THEN total
    ELSE PySum(Tail(items), FAdd(total, Head(items)))

Strategy_strategy_price(self) ==
    PySum([i \in 1..Len(self.options) |-> Call_black_scholes(legs[self.options[i]])], Py(0))

\* Mutant of Strategy_strategy_delta: the body of strategy_price copied and the
\* method name left as it was.
Strategy_strategy_delta_copied(self) ==
    PySum([i \in 1..Len(self.options) |-> Call_black_scholes(legs[self.options[i]])], Py(0))

Strategy_strategy_delta(self) ==
    PySum([i \in 1..Len(self.options) |-> Call_delta(legs[self.options[i]])], Py(0))

-----------------------------------------------------------------------------
(* class VolatilityAnalyzer (src/FX.py and, z_score only, src/Equity.py).   *)
(* implied_vols is a dict: a function from strikes to volatilities.         *)

RECURSIVE SumOver(_, _)
SumOver(f, keys) ==
    IF keys = {} THEN 0
    ELSE LET key == CHOOSE x \in keys : TRUE
         IN  f[key] + SumOver(f, keys \ {key})

\* numpy.mean(list): NaN (and a warning) for an empty list
NpMean(vals) ==
    IF DOMAIN vals = {} THEN NaN
    ELSE Np(Sgn(SumOver(vals, DOMAIN vals))
            * ((2 * Abs(SumOver(vals, DOMAIN vals)) + Cardinality(DOMAIN vals))
               \div (2 * Cardinality(DOMAIN vals))))

\* numpy.std(list): sqrt(mean(|x - mean|^2)), dividing by N (ddof = 0)
NpStd(vals) ==
    IF DOMAIN vals = {} THEN NaN
    ELSE LET m   == NpMean(vals).v
             dev == [x \in DOMAIN vals |-> (vals[x] - m) * (vals[x] - m)]
         IN  Np(Isqrt(SumOver(dev, DOMAIN vals) \div Cardinality(DOMAIN vals)))

\* dict.get(key): None when the key is absent
DictGet(d, key) == IF key \in DOMAIN d THEN Py(d[key]) ELSE None

\* Mutant of VolatilityAnalyzer_z_score: implied_vols.get(strike, 0), so a
\* missing strike is a volatility of 0 and never None.
VolatilityAnalyzer_z_score_default(implied_vols, strike) ==
    LET mean_vol   == NpMean(implied_vols)
        std_vol    == NpStd(implied_vols)
        strike_vol == IF strike \in DOMAIN implied_vols THEN Py(implied_vols[strike])
                      ELSE Py(0)
    IN  IF strike_vol = None THEN Raise(NoVolError)
        ELSE FDiv(FSub(strike_vol, mean_vol), std_vol)

VolatilityAnalyzer_z_score(implied_vols, strike) ==
    LET mean_vol   == NpMean(implied_vols)
        std_vol    == NpStd(implied_vols)
        strike_vol == DictGet(implied_vols, strike)
    IN  IF strike_vol = None THEN Raise(NoVolError)
        ELSE FDiv(FSub(strike_vol, mean_vol), std_vol)

Equity_VolatilityAnalyzer_z_score(implied_vols, strike) ==
    LET mean_vol   == NpMean(implied_vols)
        std_vol    == NpStd(implied_vols)
        strike_vol == DictGet(implied_vols, strike)
    IN  IF strike_vol = None THEN Raise(NoVolError)
        ELSE FDiv(FSub(strike_vol, mean_vol), std_vol)

VolatilityAnalyzer_break_even(strat, underlying_move) ==
    FDiv(Strategy_strategy_price(strat), Py(underlying_move))

Called(op, args, out) == [op |-> op, args |-> args, out |-> out]

Init ==
    /\ legs = <<>>
    /\ strategy = NoStrategy
    /\ surface = MainSurface
    /\ last = Called("", <<>>, None)

---- (* constructors *)

NewOption ==
    /\ Len(legs) < MaxLegs
    /\ \E o \in SomeOptions :
          /\ legs' = Append(legs, o)
          /\ last' = Called("Option", <<Len(legs) + 1>>, None)
    /\ UNCHANGED <<strategy, surface>>

NewEquityOption ==
    /\ Len(legs) < MaxLegs
    /\ \E o \in SomeEquityOptions :
          /\ legs' = Append(legs, o)
          /\ last' = Called("EquityOption", <<Len(legs) + 1>>, None)
    /\ UNCHANGED <<strategy, surface>>

\* Seq(1..Len(legs)) up to MaxOptions elements
RECURSIVE Lists(_, _)
Lists(S, n) ==
    IF n = 0 THEN {<<>>}
    ELSE Lists(S, n - 1) \cup {Append(l, x) : l \in Lists(S, n - 1), x \in S}

NewStrategy ==
    /\ \E options \in Lists(1..Len(legs), MaxOptions) :
          /\ strategy' = Strategy(options)
          /\ last' = Called("Strategy", options, None)
    /\ UNCHANGED <<legs, surface>>

NewRiskReversal ==
    /\ \E put \in 1..Len(legs), call \in 1..Len(legs) :
          /\ strategy' = RiskReversal(put, call)
          /\ last' = Called("RiskReversal", <<put, call>>, None)
    /\ UNCHANGED <<legs, surface>>

NewStraddle ==
    /\ \E put \in 1..Len(legs), call \in 1..Len(legs) :
          /\ strategy' = Straddle(put, call)
          /\ last' = Called("Straddle", <<put, call>>, None)
    /\ UNCHANGED <<legs, surface>>

NewButterfly ==
    /\ \E lo \in 1..Len(legs), mid \in 1..Len(legs), hi \in 1..Len(legs) :
          /\ strategy' = Butterfly(lo, mid, hi)
          /\ last' = Called("Butterfly", <<lo, mid, hi>>, None)
    /\ UNCHANGED <<legs, surface>>

---- (* queries on a leg: the six methods of its class *)

Leg_price(o) ==
    IF o.cls = "Option" THEN Option_black_scholes_of[o]
    ELSE EquityOption_black_scholes_merton_of[o]

Leg_delta(o) ==
    IF o.cls = "Option" THEN Option_delta_of[o] ELSE EquityOption_delta_of[o]

Leg_gamma(o) ==
    IF o.cls = "Option" THEN Option_gamma_of[o] ELSE EquityOption_gamma_of[o]

Leg_vega(o) ==
    IF o.cls = "Option" THEN Option_vega_of[o] ELSE EquityOption_vega_of[o]

Leg_theta(o) ==
    IF o.cls = "Option" THEN Option_theta_of[o] ELSE EquityOption_theta_of[o]

Leg_rho(o) ==
    IF o.cls = "Option" THEN Option_rho_of[o] ELSE EquityOption_rho_of[o]

Price(i) ==
    /\ last' = Called("Price", <<i>>, Leg_price(legs[i]))
    /\ UNCHANGED <<legs, strategy, surface>>

Delta(i) ==
    /\ last' = Called("Delta", <<i>>, Leg_delta(legs[i]))
    /\ UNCHANGED <<legs, strategy, surface>>

Gamma(i) ==
    /\ last' = Called("Gamma", <<i>>, Leg_gamma(legs[i]))
    /\ UNCHANGED <<legs, strategy, surface>>

Vega(i) ==
    /\ last' = Called("Vega", <<i>>, Leg_vega(legs[i]))
    /\ UNCHANGED <<legs, strategy, surface>>

Theta(i) ==
    /\ last' = Called("Theta", <<i>>, Leg_theta(legs[i]))
    /\ UNCHANGED <<legs, strategy, surface>>

Rho(i) ==
    /\ last' = Called("Rho", <<i>>, Leg_rho(legs[i]))
    /\ UNCHANGED <<legs, strategy, surface>>

---- (* queries on the strategy and of the analyzer *)

strategyPrice ==
    /\ strategy # NoStrategy
    /\ last' = Called("strategyPrice", <<>>, Strategy_strategy_price(strategy))
    /\ UNCHANGED <<legs, strategy, surface>>

strategyDelta ==
    /\ strategy # NoStrategy
    /\ last' = Called("strategyDelta", <<>>, Strategy_strategy_delta(strategy))
    /\ UNCHANGED <<legs, strategy, surface>>

breakEven ==
    /\ strategy # NoStrategy
    /\ \E underlying_move \in Moves :
          last' = Called("breakEven", <<underlying_move>>,
                         VolatilityAnalyzer_break_even(strategy, underlying_move))
    /\ UNCHANGED <<legs, strategy, surface>>

\* Mutant of zScore: z_score takes the strike with implied_vols.pop(strike, None),
\* which removes it from the caller's dict.
zScore_pop ==
    /\ \E strike \in QueryStrikes :
          /\ last' = Called("zScore", <<strike>>,
                            VolatilityAnalyzer_z_score(surface, strike))
          /\ surface' = [x \in DOMAIN surface \ {strike} |-> surface[x]]
    /\ UNCHANGED <<legs, strategy>>

zScore ==
    /\ \E strike \in QueryStrikes :
          last' = Called("zScore", <<strike>>,
                         VolatilityAnalyzer_z_score(surface, strike))
    /\ UNCHANGED <<legs, strategy, surface>>

zScoreEquity ==
    /\ \E strike \in QueryStrikes :
          last' = Called("Equity.zScore", <<strike>>,
                         Equity_VolatilityAnalyzer_z_score(surface, strike))
    /\ UNCHANGED <<legs, strategy, surface>>

---- (* specifications *)

LegQuery ==
    \E i \in 1..Len(legs) :
        Price(i) \/ Delta(i) \/ Gamma(i) \/ Vega(i) \/ Theta(i) \/ Rho(i)

Next ==
    \/ NewOption
    \/ NewEquityOption
    \/ NewStrategy
    \/ NewRiskReversal
    \/ NewStraddle
    \/ NewButterfly
    \/ LegQuery
    \/ strategyPrice
    \/ strategyDelta
    \/ breakEven
    \/ zScore

\* The caller's program: build legs and strategies, query them.
Spec == Init /\ [][Next]_vars

\* One leg with any field values, and the six queries on it.
InitLeg ==
    /\ legs \in {<<o>> : o \in AllOptions \cup AllEquityOptions}
    /\ strategy = NoStrategy
    /\ surface = MainSurface
    /\ last = Called("", <<>>, None)

SpecLeg == InitLeg /\ [][LegQuery]_vars

\* Any dict of implied volatilities, and z_score on it.
InitVol ==
    /\ legs = <<>>
    /\ strategy = NoStrategy
    /\ surface \in AllSurfaces
    /\ last = Called("", <<>>, None)

NextVol == zScore \/ zScoreEquity

SpecVol == InitVol /\ [][NextVol]_vars

-----------------------------------------------------------------------------
(* Vocabulary of the properties.                                           *)

\* The error kinds of the specification: InvalidArgument is the ValueError of
\* an unrecognized option type and the ZeroDivisionError of a zero divisor,
\* NotFound the ValueError of a strike that is not in the dict.  TypeError,
\* UnboundLocalError and AttributeError are no kind the specification names.
ErrKind(out) ==
    IF out.k # "raise" THEN "returned"
    ELSE IF out.e \in {OptionTypeError, "ZeroDivisionError"} THEN "InvalidArgument"
    ELSE IF out.e = NoVolError THEN "NotFound"
    ELSE "Other"

ValidTypes == {"call", "put"}

QueryOps ==
    {"Price", "Delta", "Gamma", "Vega", "Theta", "Rho", "strategyPrice",
     "strategyDelta", "breakEven", "zScore", "Equity.zScore"}

\* The leg a query on a leg was made on.
QueriedLeg == legs[last.args[1]]

\* The method of o's own class that a query names, computed from o's fields.
MethodOf(op, o) ==
    IF o.cls = "Option"
    THEN CASE op = "Price" -> Option_black_scholes(o)
           [] op = "Delta" -> Option_delta(o)
           [] op = "Gamma" -> Option_gamma(o)
           [] op = "Vega"  -> Option_vega(o)
           [] op = "Theta" -> Option_theta(o)
           [] op = "Rho"   -> Option_rho(o)
    ELSE CASE op = "Price" -> EquityOption_black_scholes_merton(o)
           [] op = "Delta" -> EquityOption_delta(o)
           [] op = "Gamma" -> EquityOption_gamma(o)
           [] op = "Vega"  -> EquityOption_vega(o)
           [] op = "Theta" -> EquityOption_theta(o)
           [] op = "Rho"   -> EquityOption_rho(o)

\* The legs of the strategy, in order.
StrategyLegs == [i \in 1..Len(strategy.options) |-> legs[strategy.options[i]]]

AllFX == \A i \in 1..Len(strategy.options) : StrategyLegs[i].cls = "Option"

AllValidTypes ==
    \A i \in 1..Len(strategy.options) : StrategyLegs[i].option_type \in ValidTypes

\* The sum, in order, of each leg's own Price (Delta).
SumOfPrices == PySum([i \in 1..Len(strategy.options) |-> Leg_price(StrategyLegs[i])], Py(0))

SumOfDeltas == PySum([i \in 1..Len(strategy.options) |-> Leg_delta(StrategyLegs[i])], Py(0))

-----------------------------------------------------------------------------
(* Properties of a leg (SpecLeg).                                          *)

\* C1: Price on a leg whose option_type is neither 'call' nor 'put' raises an
\* error of the InvalidArgument kind and returns no value, whatever the other
\* fields of the leg are (a zero strike, a zero or negative expiry, a zero
\* volatility included), for both classes.
C1_PriceRejectsUnknownType ==
    (last.op = "Price" /\ QueriedLeg.option_type \notin ValidTypes)
        => (last.out.k = "raise" /\ ErrKind(last.out) = "InvalidArgument")

C1_Witness ==
    /\ last.op = "Price"
    /\ QueriedLeg.option_type = "digital"
    /\ QueriedLeg.cls = "EquityOption"
    /\ QueriedLeg.expiry = 0
    /\ last.out = Raise(OptionTypeError)

\* C2 (as claimed): Delta, Theta and Rho on a leg whose option_type is neither
\* 'call' nor 'put' raise an error of the InvalidArgument kind.
C2_GreeksRejectUnknownType ==
    (last.op \in {"Delta", "Theta", "Rho"} /\ QueriedLeg.option_type \notin ValidTypes)
        => (last.out.k = "raise" /\ ErrKind(last.out) = "InvalidArgument")

\* C8: Gamma and Vega do not depend on option_type: the result is the one the
\* same leg gets with any other option_type (an unrecognized one included),
\* it is never None, and the only exception is the ZeroDivisionError of a zero
\* strike, which every option_type gets alike.
C8_GammaVegaIgnoreType ==
    last.op \in {"Gamma", "Vega"} =>
        /\ \A ty \in OptionTypes :
              MethodOf(last.op, [QueriedLeg EXCEPT !.option_type = ty]) = last.out
        /\ last.out.k # "none"
        /\ last.out.k = "raise" => last.out.e = "ZeroDivisionError"

C8_Witness ==
    /\ last.op = "Gamma"
    /\ QueriedLeg.option_type = "digital"
    /\ last.out.k = "num"
    /\ last.out.v > 0

\* S e^(-qT) - K e^(-rT) for an equity leg, S - K e^(-rT) for an FX leg
ParityValue(o) ==
    IF o.cls = "Option"
    THEN o.spot - MulS(o.strike, ExpS(-MulS(o.interest_rate, o.expiry)))
    ELSE MulS(o.spot, ExpS(-MulS(o.dividend_yield, o.expiry)))
         - MulS(o.strike, ExpS(-MulS(o.interest_rate, o.expiry)))

\* the rounding of the fixed-point arithmetic: 5 units of the fourth decimal
ParityTol == SCALE \div 2000

\* C10: put-call parity.  The price just computed for a call or a put with
\* positive implied_vol, expiry and strike, and the price of the same leg with
\* the other option_type, differ (call minus put) by S e^(-qT) - K e^(-rT)
\* (equity) or S - K e^(-rT) (FX), within ParityTol.
C10_PutCallParity ==
    (/\ last.op = "Price"
     /\ QueriedLeg.option_type \in ValidTypes
     /\ QueriedLeg.implied_vol > 0
     /\ QueriedLeg.expiry > 0
     /\ QueriedLeg.strike > 0)
    => LET o    == QueriedLeg
           twin == MethodOf("Price", [o EXCEPT !.option_type =
                                        IF o.option_type = "call" THEN "put" ELSE "call"])
           call == IF o.option_type = "call" THEN last.out ELSE twin
           put  == IF o.option_type = "call" THEN twin ELSE last.out
       IN  /\ call.k = "num"
           /\ put.k = "num"
           /\ Abs(call.v - put.v - ParityValue(o)) <= ParityTol

C10_Witness ==
    /\ last.op = "Price"
    /\ QueriedLeg.cls = "EquityOption"
    /\ QueriedLeg.option_type = "put"
    /\ QueriedLeg.implied_vol > 0
    /\ QueriedLeg.expiry > 0
    /\ QueriedLeg.strike > QueriedLeg.spot
    /\ QueriedLeg.dividend_yield > 0
    /\ last.out.k = "num"
    /\ last.out.v > 0

-----------------------------------------------------------------------------
(* Properties of z_score (SpecVol).                                        *)

\* (value - mean) / population std in closed form, from the sums of the values
\* and of their squares: (N v - sum) / sqrt(N sumsq - sum^2).
ZScoreValue(vols, strike) ==
    LET n     == Cardinality(DOMAIN vols)
        sum   == SumOver(vols, DOMAIN vols)
        sumsq == SumOver([x \in DOMAIN vols |-> vols[x] * vols[x]], DOMAIN vols)
    IN  DivS(n * vols[strike] - sum, Isqrt(n * sumsq - sum * sum))

\* All the values of the dict are the same (the population std is 0).
ZeroVariance(vols) == \A x, y \in DOMAIN vols : vols[x] = vols[y]

\* the rounding of the fixed-point std: half a percent of a unit z-score
ZTol == SCALE \div 200

\* C6: z_score of a strike that is no key of the dict raises the error of the
\* NotFound kind, for every dict (the empty one and one of equal values
\* included); of a key it raises nothing and returns (value - mean) / std with
\* the population std (a NaN when all the values are the same).
C6_ZScore ==
    last.op \in {"zScore", "Equity.zScore"} =>
        LET strike == last.args[1]
        IN  IF strike \notin DOMAIN surface
            THEN last.out = Raise(NoVolError) /\ ErrKind(last.out) = "NotFound"
            ELSE IF ZeroVariance(surface)
            THEN last.out = NaN
            ELSE /\ last.out.k = "num"
                 /\ Abs(last.out.v - ZScoreValue(surface, strike)) <= ZTol

C6_Witness ==
    /\ last.op = "zScore"
    /\ Cardinality(DOMAIN surface) = 2
    /\ ZeroVariance(surface)
    /\ last.args[1] \notin DOMAIN surface
    /\ last.out = Raise(NoVolError)

-----------------------------------------------------------------------------
(* Properties of the strategy and of break_even (Spec).                    *)

\* C3 (as claimed): break_even with underlying_move = 0 on a strategy whose
\* price is computed raises an error of the InvalidArgument kind; with a nonzero
\* underlying_move it returns strategy_price() / underlying_move.
C3_BreakEven ==
    (last.op = "breakEven" /\ Strategy_strategy_price(strategy).k = "num") =>
        IF last.args[1] = 0
        THEN last.out.k = "raise" /\ ErrKind(last.out) = "InvalidArgument"
        ELSE /\ last.out.k = "num"
             /\ last.out.v = DivS(Strategy_strategy_price(strategy).v, last.args[1])

\* C4 (as claimed): whatever the classes of the legs, with every option type
\* recognized, strategy_price() is the sum of the legs' prices and
\* strategy_delta() the sum of their deltas.
C4_AnyLegClass ==
    /\ (last.op = "strategyPrice" /\ AllValidTypes) => last.out = SumOfPrices
    /\ (last.op = "strategyDelta" /\ AllValidTypes) => last.out = SumOfDeltas

\* C4 (amended): strategy_delta() is the sum of the legs' deltas for legs of
\* either class; strategy_price() is the sum of the legs' prices when every
\* leg is an FX Option, and raises AttributeError when some leg is an
\* EquityOption (which has no black_scholes method).
C4_FXLegsOnly ==
    /\ (last.op = "strategyPrice" /\ AllValidTypes /\ AllFX) => last.out = SumOfPrices
    /\ (last.op = "strategyPrice" /\ AllValidTypes /\ ~AllFX)
          => last.out = Raise("AttributeError")
    /\ (last.op = "strategyDelta" /\ AllValidTypes) => last.out = SumOfDeltas

C4_Witness ==
    /\ last.op = "strategyDelta"
    /\ Len(strategy.options) = 2
    /\ StrategyLegs[1].cls = "Option"
    /\ StrategyLegs[2].cls = "EquityOption"
    /\ last.out.k = "num"
    /\ last.out.v = Leg_delta(StrategyLegs[1]).v + Leg_delta(StrategyLegs[2]).v

\* C5 (as claimed): over FX legs, the aggregate is the sum over every leg in
\* order, and with a leg of unrecognized option type at any position it raises
\* the leg-level error (the InvalidArgument kind) instead of returning.
C5_AllOrNothing ==
    (last.op \in {"strategyPrice", "strategyDelta"} /\ AllFX) =>
        IF AllValidTypes
        THEN last.out = (IF last.op = "strategyPrice" THEN SumOfPrices ELSE SumOfDeltas)
        ELSE last.out.k = "raise" /\ ErrKind(last.out) = "InvalidArgument"

\* C7: Butterfly(low, mid, high) holds [low, mid, mid, high], so over legs that
\* price (have a delta) the aggregate is Price(low) + 2 Price(mid) + Price(high)
\* (the same of the deltas); RiskReversal(put, call) and Straddle(put, call)
\* hold [put, call] and have the same aggregates.
C7_StrategyShapes ==
    /\ last.op = "Butterfly" =>
          strategy.options = <<last.args[1], last.args[2], last.args[2], last.args[3]>>
    /\ last.op \in {"RiskReversal", "Straddle"} =>
          strategy.options = <<last.args[1], last.args[2]>>
    /\ strategy.cls = "Butterfly" =>
          /\ Len(strategy.options) = 4
          /\ (last.op = "strategyPrice" /\ AllFX /\ AllValidTypes) =>
                /\ last.out.k = "num"
                /\ last.out.v = Leg_price(StrategyLegs[1]).v
                                + 2 * Leg_price(StrategyLegs[2]).v
                                + Leg_price(StrategyLegs[4]).v
          /\ (last.op = "strategyDelta" /\ AllValidTypes) =>
                /\ last.out.k = "num"
                /\ last.out.v = Leg_delta(StrategyLegs[1]).v
                                + 2 * Leg_delta(StrategyLegs[2]).v
                                + Leg_delta(StrategyLegs[4]).v
    /\ strategy.cls \in {"RiskReversal", "Straddle"} =>
          /\ Len(strategy.options) = 2
          /\ Strategy_strategy_price(RiskReversal(strategy.options[1], strategy.options[2]))
                = Strategy_strategy_price(Straddle(strategy.options[1], strategy.options[2]))
          /\ Strategy_strategy_delta(RiskReversal(strategy.options[1], strategy.options[2]))
                = Strategy_strategy_delta(Straddle(strategy.options[1], strategy.options[2]))
          /\ last.op = "strategyPrice" =>
                last.out = Strategy_strategy_price(Straddle(strategy.options[1],
                                                            strategy.options[2]))

C7_Witness ==
    /\ strategy.cls = "Butterfly"
    /\ strategy.options[1] # strategy.options[2]
    /\ last.op = "strategyPrice"
    /\ last.out.k = "num"
    /\ last.out.v = Leg_price(StrategyLegs[1]).v + 2 * Leg_price(StrategyLegs[3]).v
                    + Leg_price(StrategyLegs[4]).v

\* C9: a query, succeeding or failing, leaves every leg, the strategy's list of
\* legs and the caller's dict as they were, and the same query made again right
\* after returns or raises what it did the first time.
C9_QueriesArePure ==
    [][last'.op \in QueryOps =>
          /\ legs' = legs
          /\ strategy' = strategy
          /\ surface' = surface
          /\ (last.op = last'.op /\ last.args = last'.args) => last'.out = last.out]_vars

C9_Witness ==
    /\ last.op = "strategyDelta"
    /\ last.out.k = "raise"
    /\ Len(legs) = 2
    /\ strategy.cls = "RiskReversal"

====
